---- MODULE Spec2Model ----
(***************************************************************************)
(* Model of cisco_audit.py: main() seeds a queue.Queue with the device     *)
(* list, writes the CSV header, starts min(NUM_THREADS, len(devices))      *)
(* device_worker threads, joins the queue and then the threads.  Each      *)
(* device_worker drains the queue, opens a netmiko session per device,     *)
(* runs the inventory commands, correlates the parsed records and writes   *)
(* rows through ThreadSafeDictWriter.                                      *)
(*                                                                         *)
(* Devices are numbered 1..D (device d stands for the d-th line of         *)
(* devices.txt); worker w is the thread "Worker-w".  The netmiko session   *)
(* provider is external: its answers are nondeterministic choices.         *)
(***************************************************************************)
EXTENDS Integers, Sequences, FiniteSets, TLC

\* ------------------------------------------------------------------ bounds
MaxDevices == 2        \* devices.txt holds 0..MaxDevices device lines
MaxConfigured == 2     \* NUM_THREADS is configured as 1..MaxConfigured
MaxIfaces == 2         \* interface records per device
MaxNeighbors == 2      \* neighbor records per device (full provider only)

\* ------------------------------------------------------- program constants
None == "None"

COMMAND_MAP ==
  [cisco_ios  |-> [version |-> "show version",
                   interfaces |-> "show ip interface brief",
                   cdp |-> "show cdp neighbors detail"],
   cisco_nxos |-> [version |-> "show version",
                   interfaces |-> "show ip interface brief",
                   cdp |-> "show cdp neighbors detail"],
   cisco_asa  |-> [version |-> "show version",
                   interfaces |-> "show interface ip brief"]]

\* ------------------------------------------------------------- small helpers
Min(a, b) == IF a <= b THEN a ELSE b

\* dict.get(key, default)
Get(d, key, default) == IF key \in DOMAIN d THEN d[key] ELSE default

\* all sequences over S of length 0..n
SeqsUpTo(S, n) == UNION {[1..k -> S] : k \in 0..n}

Workers == 1 .. MaxDevices

\* the lines devices.txt may hold, in file order
DeviceIps == <<"10.0.0.1", "10.0.0.2", "10.0.0.3", "10.0.0.4">>

\* --------------------------------------------- answers of the session provider
\* The provider is stood in for three times.  The "pool" provider gives the
\* few answers that take a worker down each path of device_worker: the first
\* n interfaces of the device, at most one neighbor record.  The "full"
\* provider gives every answer within the bounds.  The "scenario" provider is
\* the fleet of the end-to-end scenario: the session to the first device
\* opens and answers with a version record, two interface records and one
\* neighbor record on one of the two interfaces; the session to the second
\* device fails authentication.

\* device_type values autodetect may report; "linux" is not in COMMAND_MAP
DetectedOs(p) ==
  CASE p = "pool"     -> {"cisco_ios", "linux"}
    [] p = "scenario" -> {"cisco_ios", "cisco_nxos"}
    [] OTHER          -> {"cisco_ios", "cisco_nxos", "cisco_asa", "linux"}

\* exceptions ConnectHandler(...) may raise, by the except clause that takes them
ConnectErrors == {"auth", "timeout", "other"}
\* exceptions send_command / find_prompt may raise
CommandErrors(p) ==
  CASE p = "pool"     -> {"other"}
    [] p = "scenario" -> {}
    [] OTHER          -> {"timeout", "other"}

\* whether the session to device d can open
SessionOpens(p, d) == p = "scenario" => d = DeviceIps[1]

\* the exceptions ConnectHandler(...) may raise for device d
ConnectErrorsOf(p, d) ==
  IF p = "scenario" THEN (IF d = DeviceIps[2] THEN {"auth"} ELSE {})
  ELSE ConnectErrors

IfNames == <<"Gi1", "Gi2", "Gi3", "Gi4">>

\* interface i of a device: Gi<i>, addressed as the i-th address of the fleet
InterfaceRecord(i) ==
  [intf |-> IfNames[i], ipaddr |-> DeviceIps[i], status |-> "up", proto |-> "up"]

NeighborRecord(port, host) ==
  [local_port |-> port, destination_host |-> host, management_ip |-> "10.9.9.9",
   platform |-> "WS-C", remote_port |-> "Gi0/1"]

\* a neighbor record the template parsed without a management address
PartialNeighborRecord(port, host) ==
  [local_port |-> port, destination_host |-> host,
   platform |-> "WS-C", remote_port |-> "Gi0/1"]

VersionRecord == [hostname |-> "sw1", hardware |-> "C9300", version |-> "17.3"]

\* `show version` parsed (a one-element list) or not (empty)
VersionReplies == {<< >>, <<VersionRecord>>}

VersionRepliesOf(p) == IF p = "scenario" THEN {<<VersionRecord>>} ELSE VersionReplies

InterfaceReplies(p) ==
  CASE p = "pool"     -> {[i \in 1..n |-> InterfaceRecord(i)] : n \in 0..MaxIfaces}
    [] p = "scenario" -> {<<InterfaceRecord(1), InterfaceRecord(2)>>,
                          <<InterfaceRecord(2), InterfaceRecord(1)>>}
    [] OTHER          -> SeqsUpTo({InterfaceRecord(i) : i \in 1..MaxIfaces}, MaxIfaces)

NeighborHosts == {"swA", "swB"}
NeighborPorts == {"Gi1", "Gi9"}

NeighborReplies(p) ==
  CASE p = "pool" ->
         {<< >>, <<NeighborRecord("Gi1", "swA")>>, <<PartialNeighborRecord("Gi1", "swA")>>}
    [] p = "scenario" ->
         {<<NeighborRecord(q, h)>> : q \in {IfNames[1], IfNames[2]}, h \in NeighborHosts}
    [] OTHER ->
         SeqsUpTo({NeighborRecord(q, h) : q \in NeighborPorts, h \in NeighborHosts}
                  \cup {PartialNeighborRecord(q, h) : q \in NeighborPorts, h \in NeighborHosts},
                  MaxNeighbors)

\* ------------------------------------------------------------ correlation
\* keys the cdp_lookup comprehension subscripts on every neighbor record
CdpKeys == {"local_port", "destination_host", "management_ip", "platform", "remote_port"}

\* item['...'] raises KeyError when a neighbor record lacks a subscripted key
CdpLookupRaises(cdp_data) ==
  \E i \in DOMAIN cdp_data : ~(CdpKeys \subseteq DOMAIN cdp_data[i])

CdpEntry(item) ==
  [neighbor |-> item.destination_host, neighbor_ip |-> item.management_ip,
   neighbor_platform |-> item.platform, neighbor_port |-> item.remote_port]

\* mutant: the first item with a given local_port is kept
CdpLookup_FirstWins(cdp_data) ==
  [k \in {cdp_data[j].local_port : j \in DOMAIN cdp_data} |->
     CdpEntry(cdp_data[CHOOSE j \in DOMAIN cdp_data :
                         /\ cdp_data[j].local_port = k
                         /\ \A h \in 1..(j - 1) : cdp_data[h].local_port # k])]

\* the dict comprehension: later items overwrite earlier ones with the same key
RECURSIVE CdpLookup(_)
CdpLookup(cdp_data) ==
  IF cdp_data = << >> THEN << >>
  ELSE LET n    == Len(cdp_data)
           item == cdp_data[n]
           prev == CdpLookup(SubSeq(cdp_data, 1, n - 1))
       IN  [k \in DOMAIN prev \cup {item.local_port} |->
              IF k = item.local_port THEN CdpEntry(item) ELSE prev[k]]

FailureRow(ip, status) == [ip_address |-> ip, status |-> status]

SummaryRow(hostname, ip, device_info) ==
  [hostname |-> hostname, ip_address |-> ip,
   model |-> Get(device_info, "hardware", None),
   version |-> Get(device_info, "version", None),
   status |-> "OK"]

\* mutant: the row's ip_address is taken from the interface record
InterfaceRow_IfaceIp(hostname, ip, device_info, iface, cdp_lookup) ==
  LET local_int         == Get(iface, "intf", None)
      cdp_neighbor_info == Get(cdp_lookup, local_int, << >>)
  IN  [hostname |-> hostname, ip_address |-> Get(iface, "ipaddr", None),
       model |-> Get(device_info, "hardware", None),
       version |-> Get(device_info, "version", None),
       interface |-> local_int,
       interface_ip |-> Get(iface, "ipaddr", None),
       interface_status |-> Get(iface, "status", None),
       protocol_status |-> Get(iface, "proto", None),
       neighbor_device |-> Get(cdp_neighbor_info, "neighbor", None),
       neighbor_platform |-> Get(cdp_neighbor_info, "neighbor_platform", None),
       neighbor_interface |-> Get(cdp_neighbor_info, "neighbor_port", None),
       status |-> "OK"]

InterfaceRow(hostname, ip, device_info, iface, cdp_lookup) ==
  LET local_int         == Get(iface, "intf", None)
      cdp_neighbor_info == Get(cdp_lookup, local_int, << >>)
  IN  [hostname |-> hostname, ip_address |-> ip,
       model |-> Get(device_info, "hardware", None),
       version |-> Get(device_info, "version", None),
       interface |-> local_int,
       interface_ip |-> Get(iface, "ipaddr", None),
       interface_status |-> Get(iface, "status", None),
       protocol_status |-> Get(iface, "proto", None),
       neighbor_device |-> Get(cdp_neighbor_info, "neighbor", None),
       neighbor_platform |-> Get(cdp_neighbor_info, "neighbor_platform", None),
       neighbor_interface |-> Get(cdp_neighbor_info, "neighbor_port", None),
       status |-> "OK"]

\* mutant: the interface rows are produced last record first
DeviceRows_Reversed(ip, version_data, interface_data, cdp_data, prompt) ==
  LET device_info == version_data[1]
      hostname    == Get(device_info, "hostname", prompt)
      cdp_lookup  == CdpLookup(cdp_data)
      N           == Len(interface_data)
  IN  IF interface_data = << >>
      THEN <<SummaryRow(hostname, ip, device_info)>>
      ELSE [i \in 1..N |->
              InterfaceRow(hostname, ip, device_info, interface_data[N + 1 - i], cdp_lookup)]

\* the rows step 3 writes, in order, for a device whose version record parsed
DeviceRows(ip, version_data, interface_data, cdp_data, prompt) ==
  LET device_info == version_data[1]
      hostname    == Get(device_info, "hostname", prompt)
      cdp_lookup  == CdpLookup(cdp_data)
  IN  IF interface_data = << >>
      THEN <<SummaryRow(hostname, ip, device_info)>>
      ELSE [i \in 1..Len(interface_data) |->
              InterfaceRow(hostname, ip, device_info, interface_data[i], cdp_lookup)]

\* mutant: every exception is taken by the last except clause
ExceptStatus_Generic(exc) == "Error: " \o exc

\* the status each except clause writes
ExceptStatus(exc) ==
  CASE exc = "auth"    -> "Authentication Failed"
    [] exc = "timeout" -> "Connection Timeout"
    [] OTHER           -> "Error: " \o exc

\* ------------------------------------------------------------------- sink
fieldnames ==
  <<"hostname", "ip_address", "model", "version", "status", "interface",
    "interface_ip", "interface_status", "protocol_status", "neighbor_device",
    "neighbor_platform", "neighbor_interface">>

FieldSet == {fieldnames[i] : i \in 1..Len(fieldnames)}

\* csv.DictWriter(restval='N/A'): an absent key is written as N/A, None as ''
DictWriterLine(row) ==
  [f \in FieldSet |-> IF f \in DOMAIN row
                      THEN (IF row[f] = None THEN "" ELSE row[f])
                      ELSE "N/A"]

HeaderLine == [f \in FieldSet |-> f]

\* ------------------------------------------------------------------ state
VARIABLES
  provider,          \* which bounded stand-in of the session provider answers
  devices,           \* main: the device list read from DEVICE_FILE
  num_threads,       \* the configured NUM_THREADS
  main_pc,           \* main: position
  pushed,            \* main: devices put on the queue so far
  threads,           \* main: len(threads), workers 1..threads are started
  joined,            \* main: threads joined so far
  work_queue,        \* queue.Queue: the items
  unfinished_tasks,  \* queue.Queue: the counter join() waits on
  lock,              \* ThreadSafeDictWriter.lock: 0 free, else the holder
  csvfile,           \* the lines written to CSV_FILE
  sink,              \* CSV_FILE: "unopened", "open" or "closed"
  pbar,              \* tqdm: units completed
  pc,                \* device_worker: position of each worker
  ip,                \* device_worker: the popped device
  session,           \* device_worker: net_connect: "none", "open", "closed"
  detected_os,       \* device_worker locals
  version_data,
  interface_data,
  cdp_data,
  rows,              \* device_worker: rows still to hand to writerow
  exc,               \* device_worker: exception in flight, "none" if none
  hist               \* per device: how often it was popped, opened, closed, done

mainVars   == <<provider, devices, num_threads, main_pc, pushed, threads, joined>>
queueVars  == <<work_queue, unfinished_tasks>>
sinkVars   == <<lock, csvfile, sink>>
dataVars   == <<detected_os, version_data, interface_data, cdp_data>>
vars == <<provider, devices, num_threads, main_pc, pushed, threads, joined,
          work_queue, unfinished_tasks, lock, csvfile, sink, pbar, pc, ip,
          session, detected_os, version_data, interface_data, cdp_data, rows,
          exc, hist>>

DeviceSet == {devices[i] : i \in 1..Len(devices)}

\* hist[d]: pops, attempts (ConnectHandler calls), opens (sessions opened),
\* commands (send_command calls), replies (send_command calls that returned),
\* closes, dones (task_done calls) count events of device d; popper, opener
\* and closer are the workers that did them; raised is the exception that
\* ended its task
NoHist == [pops |-> 0, attempts |-> 0, opens |-> 0, commands |-> 0, replies |-> 0,
           closes |-> 0, dones |-> 0, popper |-> 0, opener |-> 0, closer |-> 0,
           raised |-> "none"]

ConfiguredCounts == 1 .. MaxConfigured

InitWith(p, maxdev, counts) ==
  /\ provider = p
  /\ \E D \in 0..maxdev : devices = [i \in 1..D |-> DeviceIps[i]]
  /\ num_threads \in counts
  /\ main_pc = "check_devices"
  /\ pushed = 0
  /\ threads = 0
  /\ joined = 0
  /\ work_queue = << >>
  /\ unfinished_tasks = 0
  /\ lock = 0
  /\ csvfile = << >>
  /\ sink = "unopened"
  /\ pbar = 0
  /\ pc = [w \in Workers |-> "unstarted"]
  /\ ip = [w \in Workers |-> None]
  /\ session = [w \in Workers |-> "none"]
  /\ detected_os = [w \in Workers |-> None]
  /\ version_data = [w \in Workers |-> << >>]
  /\ interface_data = [w \in Workers |-> << >>]
  /\ cdp_data = [w \in Workers |-> << >>]
  /\ rows = [w \in Workers |-> << >>]
  /\ exc = [w \in Workers |-> "none"]
  /\ hist = [d \in {DeviceIps[i] : i \in 1..Len(DeviceIps)} |-> NoHist]

Init == InitWith("pool", MaxDevices, ConfiguredCounts)

\* ------------------------------------------------------------------- main
\* if not devices: return
MainCheckDevices ==
  /\ main_pc = "check_devices"
  /\ main_pc' = IF devices = << >> THEN "returned" ELSE "put"
  /\ UNCHANGED <<provider, devices, num_threads, pushed, threads, joined,
                 queueVars, sinkVars, pbar, pc, ip, session, dataVars, rows, exc, hist>>

\* Queue.put: append the item and count it as unfinished
QueuePut(item) ==
  /\ work_queue' = Append(work_queue, item)
  /\ unfinished_tasks' = unfinished_tasks + 1

\* for ip in devices: work_queue.put(ip)
MainPut ==
  /\ main_pc = "put"
  /\ pushed < Len(devices)
  /\ QueuePut(devices[pushed + 1])
  /\ pushed' = pushed + 1
  /\ UNCHANGED <<provider, devices, num_threads, main_pc, threads, joined,
                 sinkVars, pbar, pc, ip, session, dataVars, rows, exc, hist>>

\* open(CSV_FILE), tqdm(total=len(devices)), writer.writeheader()
MainWriteHeader ==
  /\ main_pc = "put"
  /\ pushed = Len(devices)
  /\ lock = 0
  /\ sink' = "open"
  /\ csvfile' = Append(csvfile, HeaderLine)
  /\ main_pc' = "start"
  /\ UNCHANGED <<provider, devices, num_threads, pushed, threads, joined,
                 queueVars, lock, pbar, pc, ip, session, dataVars, rows, exc, hist>>

\* mutant: one thread per configured count, whatever the device count
ThreadCount_Configured == num_threads

\* range(min(NUM_THREADS, len(devices)))
ThreadCount == Min(num_threads, Len(devices))

\* thread.start(); threads.append(thread)
MainStartThread ==
  /\ main_pc = "start"
  /\ threads < ThreadCount
  /\ threads' = threads + 1
  /\ pc' = [pc EXCEPT ![threads + 1] = "loop"]
  /\ main_pc' = IF threads + 1 = ThreadCount THEN "queue_join" ELSE "start"
  /\ UNCHANGED <<provider, devices, num_threads, pushed, joined,
                 queueVars, sinkVars, pbar, ip, session, dataVars, rows, exc, hist>>

\* mutant: join returns while one task is still unfinished
QueueJoinReturns_Early == unfinished_tasks <= 1

\* Queue.join returns once unfinished_tasks is zero
QueueJoinReturns == unfinished_tasks = 0

\* work_queue.join()
MainQueueJoin ==
  /\ main_pc = "queue_join"
  /\ QueueJoinReturns
  /\ main_pc' = "thread_join"
  /\ UNCHANGED <<provider, devices, num_threads, pushed, threads, joined,
                 queueVars, sinkVars, pbar, pc, ip, session, dataVars, rows, exc, hist>>

\* for thread in threads: thread.join()
MainThreadJoin ==
  /\ main_pc = "thread_join"
  /\ joined < threads
  /\ pc[joined + 1] = "exit"
  /\ joined' = joined + 1
  /\ UNCHANGED <<provider, devices, num_threads, main_pc, pushed, threads,
                 queueVars, sinkVars, pbar, pc, ip, session, dataVars, rows, exc, hist>>

\* mutant: the with block is left without waiting for the thread joins
AllJoined_Skip == TRUE

\* the loop over thread.join() has joined every started thread
AllJoined == joined = threads

\* leaving the with block closes the csv file; "Audit complete"
MainComplete ==
  /\ main_pc = "thread_join"
  /\ AllJoined
  /\ sink' = "closed"
  /\ main_pc' = "done"
  /\ UNCHANGED <<provider, devices, num_threads, pushed, threads, joined,
                 queueVars, lock, csvfile, pbar, pc, ip, session, dataVars, rows, exc, hist>>

Main ==
  \/ MainCheckDevices
  \/ MainPut
  \/ MainWriteHeader
  \/ MainStartThread
  \/ MainQueueJoin
  \/ MainThreadJoin
  \/ MainComplete

\* ---------------------------------------------------------- device_worker
Bump(d, field) == [hist EXCEPT ![d][field] = @ + 1]

\* while not work_queue.empty():
WorkerLoop(w) ==
  /\ pc[w] = "loop"
  /\ pc' = [pc EXCEPT ![w] = IF work_queue = << >> THEN "exit" ELSE "get"]
  /\ UNCHANGED <<mainVars, queueVars, sinkVars, pbar, ip, session, dataVars, rows, exc, hist>>

\* Queue.get() blocks while the queue holds no item
QueueGetReady == work_queue # << >>

\* mutant: get returns the head without removing it
QueueAfterGet_Peek == work_queue

\* what Queue.get() leaves in the queue
QueueAfterGet == Tail(work_queue)

\* ip = work_queue.get()
WorkerGet(w) ==
  /\ pc[w] = "get"
  /\ QueueGetReady
  /\ ip' = [ip EXCEPT ![w] = Head(work_queue)]
  /\ work_queue' = QueueAfterGet
  /\ hist' = [hist EXCEPT ![Head(work_queue)].pops = @ + 1,
                          ![Head(work_queue)].popper = w]
  /\ pc' = [pc EXCEPT ![w] = "connect"]
  /\ UNCHANGED <<mainVars, unfinished_tasks, sinkVars, pbar, session, dataVars, rows, exc>>

\* with ConnectHandler(**base_device) as net_connect: the session opens, or
\* the constructor raises and no session exists
WorkerConnect(w) ==
  /\ pc[w] = "connect"
  /\ \/ \E os \in DetectedOs(provider) :
          /\ SessionOpens(provider, ip[w])
          /\ session' = [session EXCEPT ![w] = "open"]
          /\ detected_os' = [detected_os EXCEPT ![w] = os]
          /\ hist' = [hist EXCEPT ![ip[w]].attempts = @ + 1,
                                  ![ip[w]].opens = @ + 1, ![ip[w]].opener = w]
          /\ exc' = exc
          /\ pc' = [pc EXCEPT ![w] = "detect"]
     \/ \E e \in ConnectErrorsOf(provider, ip[w]) :
          /\ exc' = [exc EXCEPT ![w] = e]
          /\ hist' = [hist EXCEPT ![ip[w]].attempts = @ + 1, ![ip[w]].raised = e]
          /\ pc' = [pc EXCEPT ![w] = "except"]
          /\ UNCHANGED <<session, detected_os>>
  /\ UNCHANGED <<mainVars, queueVars, sinkVars, pbar, ip,
                 version_data, interface_data, cdp_data, rows>>

\* mutant: every detected OS passes the catalog test
Supported_Any(os) == TRUE

\* detected_os in COMMAND_MAP
Supported(os) == os \in DOMAIN COMMAND_MAP

\* if detected_os not in COMMAND_MAP: one row, then continue
WorkerDetect(w) ==
  /\ pc[w] = "detect"
  /\ IF ~Supported(detected_os[w])
     THEN /\ rows' = [rows EXCEPT ![w] =
                        <<FailureRow(ip[w], "Unsupported OS: " \o detected_os[w])>>]
          /\ pc' = [pc EXCEPT ![w] = "writerow"]
     ELSE /\ rows' = rows
          /\ pc' = [pc EXCEPT ![w] = "execute"]
  /\ UNCHANGED <<mainVars, queueVars, sinkVars, pbar, ip, session, dataVars, exc, hist>>

\* an exception leaves the with block: the session is closed, then the
\* matching except clause runs
Raise(w, e) ==
  /\ exc' = [exc EXCEPT ![w] = e]
  /\ hist' = [hist EXCEPT ![ip[w]].raised = e]
  /\ pc' = [pc EXCEPT ![w] = "close"]

\* the send_command calls COMMAND_MAP[os] asks for: version, interfaces and,
\* where the catalog has it, cdp
CommandCount(os) == IF "cdp" \in DOMAIN COMMAND_MAP[os] THEN 3 ELSE 2

\* commands = COMMAND_MAP[detected_os] and the send_command calls, in order.
\* Either all of them return, or the k-th raises: the calls before it have
\* assigned their locals, the k-th and the later ones have not.
WorkerExecute(w) ==
  /\ pc[w] = "execute"
  /\ IF detected_os[w] \notin DOMAIN COMMAND_MAP
     THEN /\ Raise(w, "KeyError")
          /\ UNCHANGED <<version_data, interface_data, cdp_data>>
     ELSE LET n == CommandCount(detected_os[w]) IN
          \E v \in VersionRepliesOf(provider), i \in InterfaceReplies(provider),
             c \in (IF n = 3 THEN NeighborReplies(provider) ELSE {<< >>}) :
            \/ /\ version_data' = [version_data EXCEPT ![w] = v]
               /\ interface_data' = [interface_data EXCEPT ![w] = i]
               /\ cdp_data' = [cdp_data EXCEPT ![w] = c]
               /\ hist' = [hist EXCEPT ![ip[w]].commands = n, ![ip[w]].replies = n]
               /\ pc' = [pc EXCEPT ![w] = "process"]
               /\ exc' = exc
            \/ \E k \in 1..n, e \in CommandErrors(provider) :
                 /\ version_data' = [version_data EXCEPT ![w] = IF k > 1 THEN v ELSE @]
                 /\ interface_data' = [interface_data EXCEPT ![w] = IF k > 2 THEN i ELSE @]
                 /\ cdp_data' = cdp_data
                 /\ hist' = [hist EXCEPT ![ip[w]].commands = k, ![ip[w]].replies = k - 1,
                                         ![ip[w]].raised = e]
                 /\ exc' = [exc EXCEPT ![w] = e]
                 /\ pc' = [pc EXCEPT ![w] = "close"]
  /\ UNCHANGED <<mainVars, queueVars, sinkVars, pbar, ip, session, detected_os, rows>>

\* mutant: the neighbor lookup is built before the version test
WorkerProcess_LookupFirst(w) ==
  /\ pc[w] = "process"
  /\ IF CdpLookupRaises(cdp_data[w])
     THEN Raise(w, "KeyError") /\ rows' = rows
     ELSE IF version_data[w] = << >>
     THEN /\ rows' = [rows EXCEPT ![w] = <<FailureRow(ip[w], "Failed to parse version")>>]
          /\ pc' = [pc EXCEPT ![w] = "writerow"]
          /\ UNCHANGED <<exc, hist>>
     ELSE \/ \E e \in CommandErrors(provider) : Raise(w, e) /\ rows' = rows
          \/ /\ rows' = [rows EXCEPT ![w] =
                           DeviceRows(ip[w], version_data[w], interface_data[w],
                                      cdp_data[w], "prompt")]
             /\ pc' = [pc EXCEPT ![w] = "writerow"]
             /\ UNCHANGED <<exc, hist>>
  /\ UNCHANGED <<mainVars, queueVars, sinkVars, pbar, ip, session, dataVars>>

\* step 2 and the row construction of step 3
WorkerProcess(w) ==
  /\ pc[w] = "process"
  /\ IF version_data[w] = << >>
     THEN /\ rows' = [rows EXCEPT ![w] = <<FailureRow(ip[w], "Failed to parse version")>>]
          /\ pc' = [pc EXCEPT ![w] = "writerow"]
          /\ UNCHANGED <<exc, hist>>
     ELSE \* find_prompt() is evaluated as the default of .get and may raise
          \/ \E e \in CommandErrors(provider) : Raise(w, e) /\ rows' = rows
          \/ /\ CdpLookupRaises(cdp_data[w])
             /\ Raise(w, "KeyError")
             /\ rows' = rows
          \/ /\ ~CdpLookupRaises(cdp_data[w])
             /\ rows' = [rows EXCEPT ![w] =
                           DeviceRows(ip[w], version_data[w], interface_data[w],
                                      cdp_data[w], "prompt")]
             /\ pc' = [pc EXCEPT ![w] = "writerow"]
             /\ UNCHANGED <<exc, hist>>
  /\ UNCHANGED <<mainVars, queueVars, sinkVars, pbar, ip, session, dataVars>>

\* mutant: writerow does not wait for the lock
LockFree_Always == TRUE

\* with self.lock: the lock is taken only when free
LockFree == lock = 0

\* ThreadSafeDictWriter.writerow: acquire the lock
WorkerWriterowAcquire(w) ==
  /\ pc[w] = "writerow"
  /\ LockFree
  /\ lock' = w
  /\ pc' = [pc EXCEPT ![w] = "writing"]
  /\ UNCHANGED <<mainVars, queueVars, csvfile, sink, pbar, ip, session, dataVars,
                 rows, exc, hist>>

\* mutant: continue and the end of the loop body bypass the session's exit
AfterWrite_SkipClose(w) ==
  IF Tail(rows[w]) # << >> THEN "writerow" ELSE "task_done"

\* where control goes once the rows of the current statement are written:
\* the next row, else out of the with block if it is still open, else finally
AfterWrite(w) ==
  IF Tail(rows[w]) # << >> THEN "writerow"
  ELSE IF session[w] = "open" THEN "close"
  ELSE "task_done"

\* self.writer.writerow(row) under the lock, then release
WorkerWriterowWrite(w) ==
  /\ pc[w] = "writing"
  /\ csvfile' = Append(csvfile, DictWriterLine(Head(rows[w])))
  /\ lock' = 0
  /\ rows' = [rows EXCEPT ![w] = Tail(@)]
  /\ pc' = [pc EXCEPT ![w] = AfterWrite(w)]
  /\ UNCHANGED <<mainVars, queueVars, sink, pbar, ip, session, dataVars, exc, hist>>

\* mutant: the exception propagates out of device_worker and ends the thread
AfterClose_Propagates(w) == IF exc[w] # "none" THEN "exit" ELSE "task_done"

\* mutant: no except clause, the exception is dropped by finally
AfterClose_NoExcept(w) == "task_done"

\* mutant: the failure row is written whether or not an exception is in flight
AfterClose_AlwaysExcept(w) == "except"

\* where control goes when the with block has been left
AfterClose(w) == IF exc[w] # "none" THEN "except" ELSE "task_done"

\* mutant: leaving the with block does not disconnect
WorkerClose_Leak(w) ==
  /\ pc[w] = "close"
  /\ pc' = [pc EXCEPT ![w] = AfterClose(w)]
  /\ UNCHANGED <<mainVars, queueVars, sinkVars, pbar, ip, session, dataVars, rows, exc, hist>>

\* ConnectHandler.__exit__: disconnect
WorkerClose(w) ==
  /\ pc[w] = "close"
  /\ session' = [session EXCEPT ![w] = "closed"]
  /\ hist' = [hist EXCEPT ![ip[w]].closes = @ + 1, ![ip[w]].closer = w]
  /\ pc' = [pc EXCEPT ![w] = AfterClose(w)]
  /\ UNCHANGED <<mainVars, queueVars, sinkVars, pbar, ip, dataVars, rows, exc>>

\* the except clauses: one failure row
WorkerExcept(w) ==
  /\ pc[w] = "except"
  /\ rows' = [rows EXCEPT ![w] = <<FailureRow(ip[w], ExceptStatus(exc[w]))>>]
  /\ exc' = [exc EXCEPT ![w] = "none"]
  /\ pc' = [pc EXCEPT ![w] = "writerow"]
  /\ UNCHANGED <<mainVars, queueVars, sinkVars, pbar, ip, session, dataVars, hist>>

\* Queue.task_done
QueueTaskDone == unfinished_tasks' = unfinished_tasks - 1

\* finally: work_queue.task_done()
WorkerTaskDone(w) ==
  /\ pc[w] = "task_done"
  /\ QueueTaskDone
  /\ hist' = Bump(ip[w], "dones")
  /\ pc' = [pc EXCEPT ![w] = "pbar"]
  /\ UNCHANGED <<mainVars, work_queue, sinkVars, pbar, ip, session, dataVars, rows, exc>>

\* mutant: the update does not reach the counter
PbarUpdate_Lost == pbar' = pbar

\* tqdm.update(1)
PbarUpdate == pbar' = pbar + 1

\* finally: pbar.update(1); the iteration's locals are dead from here on
WorkerPbarUpdate(w) ==
  /\ pc[w] = "pbar"
  /\ PbarUpdate
  /\ ip' = [ip EXCEPT ![w] = None]
  /\ session' = [session EXCEPT ![w] = "none"]
  /\ detected_os' = [detected_os EXCEPT ![w] = None]
  /\ version_data' = [version_data EXCEPT ![w] = << >>]
  /\ interface_data' = [interface_data EXCEPT ![w] = << >>]
  /\ cdp_data' = [cdp_data EXCEPT ![w] = << >>]
  /\ pc' = [pc EXCEPT ![w] = "loop"]
  /\ UNCHANGED <<mainVars, queueVars, sinkVars, rows, exc, hist>>

Worker(w) ==
  \/ WorkerLoop(w)
  \/ WorkerGet(w)
  \/ WorkerConnect(w)
  \/ WorkerDetect(w)
  \/ WorkerExecute(w)
  \/ WorkerProcess(w)
  \/ WorkerWriterowAcquire(w)
  \/ WorkerWriterowWrite(w)
  \/ WorkerClose(w)
  \/ WorkerExcept(w)
  \/ WorkerTaskDone(w)
  \/ WorkerPbarUpdate(w)

Next == Main \/ \E w \in Workers : Worker(w)

Spec == Init /\ [][Next]_vars

\* Threads are scheduled by the operating system and every session call
\* returns or raises: a step that stays possible is eventually taken.
Fairness == WF_vars(Main) /\ \A w \in Workers : WF_vars(Worker(w))

FairSpec == Spec /\ Fairness

\* one device, one worker, every answer of the provider within the bounds
InitTask == InitWith("full", 1, {1})

SpecTask == InitTask /\ [][Next]_vars

\* the end-to-end scenario: devices 10.0.0.1 and 10.0.0.2, NUM_THREADS = 2
InitScenario == InitWith("scenario", 2, {2}) /\ Len(devices) = 2

SpecScenario == InitScenario /\ [][Next]_vars

\* ================================================================= claims
\* devices already put on the queue
Pushed == {devices[i] : i \in 1..pushed}

\* how many times d sits in the queue
InQueue(d) == Cardinality({i \in DOMAIN work_queue : work_queue[i] = d})

\* the lines of the output that carry device d's ip, in output order
LinesOf(d) == SelectSeq(csvfile, LAMBDA l : l.ip_address = d)

OkLinesOf(d) == SelectSeq(LinesOf(d), LAMBDA l : l.status = "OK")

\* a line of e lies between two lines of d
Interleaved(d, e) ==
  \E i, j, k \in DOMAIN csvfile :
    /\ i < j /\ j < k
    /\ csvfile[i].ip_address = d /\ csvfile[k].ip_address = d
    /\ csvfile[j].ip_address = e

\* positions of a worker that has popped a device and not yet marked it done
Processing ==
  {"connect", "detect", "execute", "process", "writerow", "writing", "close",
   "except", "task_done"}

\* C1: with at least one device, under fair scheduling the run is eventually
\* declared complete (main gets past joining every worker).
C1_RunCompletes == <>(main_pc = "done" \/ devices = << >>)

\* C2 as claimed: no line of one device is ever written between two lines of
\* another device.
C2_RowsContiguous ==
  \A d, e \in DeviceSet : d # e => ~Interleaved(d, e)

\* C2 as amended: a line of one device lies between two lines of another only
\* when the two devices were popped by different workers; the devices one
\* worker processes never interleave.
C2_SameWorkerContiguous ==
  \A d, e \in DeviceSet :
    (d # e /\ Interleaved(d, e)) => hist[d].popper # hist[e].popper

\* one worker has written two multi-row devices
C2_Witness ==
  \E d, e \in DeviceSet :
    /\ d # e
    /\ hist[d].popper # 0 /\ hist[d].popper = hist[e].popper
    /\ Len(LinesOf(d)) >= 2 /\ Len(LinesOf(e)) >= 2

\* C3: when a worker is about to mark a device done, and ever after, the
\* output holds at least one line carrying that device's ip.
C3_RowBeforeDone ==
  /\ \A w \in Workers : pc[w] = "task_done" => Len(LinesOf(ip[w])) >= 1
  /\ \A d \in DeviceSet : hist[d].dones >= 1 => Len(LinesOf(d)) >= 1

\* two devices are done, one through a failure path, one through the OK path
C3_Witness ==
  \E d, e \in DeviceSet :
    /\ hist[d].dones = 1 /\ hist[e].dones = 1
    /\ hist[d].raised # "none" /\ Len(LinesOf(d)) = 1
    /\ Len(OkLinesOf(e)) >= 1

\* C4: the lines of a device are all OK lines or are one single failure line,
\* and a device marked done has at least one line.
C4_OneOutcome ==
  \A d \in DeviceSet :
    /\ Len(LinesOf(d)) <= 1 \/ Len(OkLinesOf(d)) = Len(LinesOf(d))
    /\ hist[d].dones >= 1 => Len(LinesOf(d)) >= 1

\* a session was opened, a command raised, and the device is done with its
\* single failure line, next to a device with several OK lines
C4_Witness ==
  \E d, e \in DeviceSet :
    /\ hist[d].dones = 1 /\ hist[d].opens = 1 /\ hist[d].raised # "none"
    /\ Len(LinesOf(d)) = 1 /\ Len(OkLinesOf(d)) = 0
    /\ Len(OkLinesOf(e)) >= 2

\* C5: a device whose version record parsed, with N >= 1 interface records
\* and no failing session call, has exactly N OK lines once it is marked
\* done, whatever its neighbor records are.
C5_NeighborsNeverSuppress ==
  \A w \in Workers :
    ( /\ pc[w] = "pbar"
      /\ version_data[w] # << >>
      /\ Len(interface_data[w]) >= 1
      /\ hist[ip[w]].raised \notin ConnectErrors \cup CommandErrors(provider) )
    => Len(OkLinesOf(ip[w])) = Len(interface_data[w])

\* C6: every pushed device is in the queue or was popped, never both and
\* never twice; at most one worker holds it, the one that popped it; a
\* session open is tried at most once, and exactly once by the time it is done.
C6_ConsumedOnce ==
  \A d \in DeviceSet :
    /\ InQueue(d) + hist[d].pops = (IF d \in Pushed THEN 1 ELSE 0)
    /\ Cardinality({w \in Workers : ip[w] = d}) <= 1
    /\ \A w \in Workers : ip[w] = d => hist[d].popper = w
    /\ hist[d].attempts <= 1
    /\ hist[d].dones >= 1 => hist[d].attempts = 1
    /\ main_pc \in {"thread_join", "done"} =>
         hist[d].pops = 1 /\ hist[d].attempts = 1

\* two workers each popped a device; one device failed and was not requeued
C6_Witness ==
  \E d, e \in DeviceSet :
    /\ hist[d].popper # 0 /\ hist[e].popper # 0
    /\ hist[d].popper # hist[e].popper
    /\ hist[d].raised # "none" /\ hist[d].dones = 1
    /\ hist[e].dones = 1
    /\ work_queue = << >>

\* C7: unfinished_tasks is zero iff every pushed device was popped and marked
\* done, no device is marked done twice, and once the queue join has returned
\* no device is unpopped or in processing and every device has its lines.
C7_JoinNotEarly ==
  /\ unfinished_tasks = 0 <=>
       \A d \in Pushed : hist[d].pops = 1 /\ hist[d].dones = 1
  /\ \A d \in DeviceSet : hist[d].dones <= 1
  /\ main_pc \in {"thread_join", "done"} =>
       /\ work_queue = << >>
       /\ \A w \in Workers : pc[w] \notin Processing
       /\ \A d \in DeviceSet : hist[d].dones = 1 /\ Len(LinesOf(d)) >= 1

\* the join has returned while a worker has not yet left its last iteration
C7_Witness ==
  /\ main_pc = "thread_join"
  /\ Len(devices) >= 2
  /\ \E w \in Workers : pc[w] = "pbar"
  /\ \E d \in DeviceSet : Len(LinesOf(d)) >= 2

\* min(configured, deviceCount), computed from the inputs
ExpectedWorkers == IF num_threads <= Len(devices) THEN num_threads ELSE Len(devices)

\* C8: once the spawn loop is over exactly min(configured, deviceCount)
\* workers were started, and under fair scheduling the queue is eventually
\* seeded and drained and the queue join returns.
C8_DrainWaitReturns ==
  /\ [](main_pc \in {"queue_join", "thread_join", "done"} =>
          /\ threads = ExpectedWorkers
          /\ {w \in Workers : pc[w] # "unstarted"} = 1..ExpectedWorkers)
  /\ <>( \/ devices = << >>
         \/ /\ pushed = Len(devices) /\ unfinished_tasks = 0
            /\ main_pc \in {"thread_join", "done"} )

\* more workers configured than devices, and the join has returned
C8_Witness ==
  /\ num_threads > Len(devices)
  /\ Len(devices) >= 1
  /\ threads = Len(devices)
  /\ main_pc = "thread_join"
  /\ unfinished_tasks = 0

\* C9: at most one worker is inside the underlying write, and it is the
\* holder of the lock.
C9_WriteExclusive ==
  /\ Cardinality({w \in Workers : pc[w] = "writing"}) <= 1
  /\ \A w \in Workers : pc[w] = "writing" <=> lock = w

\* one worker is inside the write while another waits for the lock
C9_Witness ==
  \E w, v \in Workers :
    /\ w # v
    /\ pc[w] = "writing" /\ pc[v] = "writerow"
    /\ ip[w] # ip[v]

\* C10: a session is closed at most once and only if opened, by the worker
\* that opened it; a worker that marks a device done holds no open session
\* and the device's opens and closes agree from then on.
C10_ClosedOnce ==
  /\ \A d \in DeviceSet :
       /\ hist[d].opens <= 1
       /\ hist[d].closes <= hist[d].opens
       /\ hist[d].closes = 1 =>
            hist[d].closer = hist[d].opener /\ hist[d].opener = hist[d].popper
       /\ hist[d].dones >= 1 => hist[d].closes = hist[d].opens
  /\ \A w \in Workers :
       /\ pc[w] \in {"task_done", "pbar"} =>
            session[w] # "open" /\ hist[ip[w]].closes = hist[ip[w]].opens
       /\ session[w] = "open" <=>
            (ip[w] # None /\ hist[ip[w]].opens = 1 /\ hist[ip[w]].closes = 0)

\* a device that raised after its session opened is done, its session closed,
\* next to a done device whose open failed and that never had a session
C10_Witness ==
  \E d, e \in DeviceSet :
    /\ hist[d].dones = 1 /\ hist[d].opens = 1 /\ hist[d].closes = 1
    /\ hist[d].raised # "none"
    /\ hist[e].dones = 1 /\ hist[e].attempts = 1 /\ hist[e].opens = 0
    /\ hist[e].closes = 0

\* a worker on a failure path: an exception is in flight or the row it is
\* about to write is a failure row
Failing(w) ==
  /\ pc[w] \in Processing
  /\ \/ exc[w] # "none"
     \/ rows[w] # << >> /\ Head(rows[w]).status # "OK"

\* C11: a worker leaves device_worker only from the loop test on an empty
\* queue, never from within the processing of a device; a worker on a failure
\* path eventually is back at the head of its loop with the item marked done;
\* and every device of the input eventually has its lines in the output.
C11_FailureIsolated ==
  /\ [][\A w \in Workers :
          /\ pc'[w] = "exit" /\ pc[w] # "exit" =>
               pc[w] = "loop" /\ work_queue = << >>
          /\ pc'[w] = "loop" /\ pc[w] \notin {"loop", "unstarted"} =>
               pc[w] = "pbar" /\ hist[ip[w]].dones = 1]_vars
  /\ \A w \in Workers : Failing(w) ~> (pc[w] = "loop")
  /\ <>(\A d \in DeviceSet : Len(LinesOf(d)) >= 1)

\* a worker whose first device failed is processing another device
C11_Witness ==
  \E w \in Workers, d \in DeviceSet :
    /\ hist[d].popper = w /\ hist[d].raised # "none" /\ hist[d].dones = 1
    /\ ip[w] # None /\ ip[w] # d
    /\ pc[w] \in Processing

\* the statuses of the unsupported-OS row
UnsupportedStatuses ==
  {"Unsupported OS: " \o os : os \in DetectedOs(provider) \ DOMAIN COMMAND_MAP}

\* C12: a worker whose session reported an OS outside COMMAND_MAP never
\* reaches the send_command calls and fetches no record; when it gets to
\* finally the device has exactly one line, the "Unsupported OS: <os>" row,
\* and its session was opened and closed.  Conversely a device with such a
\* line had no command sent to it.
C12_UnsupportedShortCircuit ==
  /\ \A w \in Workers :
       (detected_os[w] # None /\ detected_os[w] \notin DOMAIN COMMAND_MAP) =>
         /\ pc[w] \notin {"execute", "process", "except"}
         /\ exc[w] = "none"
         /\ hist[ip[w]].commands = 0
         /\ version_data[w] = << >> /\ interface_data[w] = << >> /\ cdp_data[w] = << >>
         /\ pc[w] \in {"task_done", "pbar"} =>
              /\ LinesOf(ip[w]) =
                   <<DictWriterLine(FailureRow(ip[w], "Unsupported OS: " \o detected_os[w]))>>
              /\ session[w] = "closed"
              /\ hist[ip[w]].opens = 1 /\ hist[ip[w]].closes = 1
  /\ \A d \in DeviceSet :
       (\E j \in DOMAIN csvfile :
          csvfile[j].ip_address = d /\ csvfile[j].status \in UnsupportedStatuses) =>
         /\ Len(LinesOf(d)) = 1
         /\ hist[d].commands = 0
         /\ hist[d].opens = 1
         /\ hist[d].dones = 1 => hist[d].closes = 1

\* an unsupported device is done with its row and its session closed, next
\* to a device that had all its commands sent
C12_Witness ==
  \E w \in Workers, e \in DeviceSet :
    /\ pc[w] = "pbar" /\ detected_os[w] = "linux"
    /\ e # ip[w] /\ hist[e].commands >= 2 /\ Len(OkLinesOf(e)) >= 1

\* the line of the version-parse failure row of device d
VersionFailureLine(d) == DictWriterLine(FailureRow(d, "Failed to parse version"))

\* C13 as claimed: once `show version` has returned an empty record list the
\* device ends with the single "Failed to parse version" line, whatever the
\* interfaces and neighbors commands do.
C13_VersionFailureOverrides ==
  \A w \in Workers :
    (pc[w] = "pbar" /\ hist[ip[w]].replies >= 1 /\ version_data[w] = << >>) =>
      LinesOf(ip[w]) = <<VersionFailureLine(ip[w])>>

\* C13 as amended: the version test follows the last send_command.  When
\* every command returned, an empty version record list gives the single
\* "Failed to parse version" line whatever the interface and neighbor records
\* are; when a later command raised, the device ends with the single failure
\* line of that exception instead.
C13_VersionFailureAfterCommands ==
  \A w \in Workers :
    (pc[w] = "pbar" /\ hist[ip[w]].replies >= 1 /\ version_data[w] = << >>) =>
      IF hist[ip[w]].replies = CommandCount(detected_os[w])
      THEN LinesOf(ip[w]) = <<VersionFailureLine(ip[w])>>
      ELSE /\ hist[ip[w]].raised \in CommandErrors(provider)
           /\ LinesOf(ip[w]) =
                <<DictWriterLine(FailureRow(ip[w], ExceptStatus(hist[ip[w]].raised)))>>

\* every command returned: no version record, interface records, and a
\* neighbor record that lacks a key; the device is done
C13_Witness ==
  \E w \in Workers :
    /\ pc[w] = "pbar" /\ version_data[w] = << >>
    /\ hist[ip[w]].replies = 3
    /\ interface_data[w] # << >>
    /\ CdpLookupRaises(cdp_data[w])

\* every send_command of w's device returned and no session call raised
AllReturned(w) ==
  /\ hist[ip[w]].replies = CommandCount(detected_os[w])
  /\ hist[ip[w]].raised \notin ConnectErrors \cup CommandErrors(provider)

\* C14: a device whose version record parsed and whose session calls all
\* returned has, once it is marked done, exactly one OK summary line when it
\* has no interface record, and otherwise exactly one OK line per interface
\* record, in order, each with the hostname, model and version of the
\* version record.
C14_RowCount ==
  \A w \in Workers :
    (pc[w] = "pbar" /\ detected_os[w] \in DOMAIN COMMAND_MAP /\ AllReturned(w)
       /\ version_data[w] # << >>) =>
      LET lines == LinesOf(ip[w])
          info  == version_data[w][1]
          N     == Len(interface_data[w])
      IN  IF N = 0
          THEN lines = <<DictWriterLine(SummaryRow(info.hostname, ip[w], info))>>
          ELSE /\ Len(lines) = N
               /\ \A i \in 1..N :
                    /\ lines[i].status = "OK"
                    /\ lines[i].hostname = info.hostname
                    /\ lines[i].model = info.hardware
                    /\ lines[i].version = info.version
                    /\ lines[i].interface = interface_data[w][i].intf

\* positions of records of cdp_data whose local_port is the interface name
Matching(cdp, name) == {j \in DOMAIN cdp : cdp[j].local_port = name}

Last(S) == CHOOSE j \in S : \A h \in S : h <= j

\* C15: in every interface line of a device in processing, the three
\* neighbor fields are those of the last neighbor record whose local_port is
\* the line's interface name, and are empty when no neighbor record has it.
C15_NeighborFields ==
  \A w \in Workers :
    pc[w] \in {"writerow", "writing", "close", "task_done", "pbar"} =>
      \A j \in DOMAIN csvfile :
        LET l == csvfile[j]
            M == Matching(cdp_data[w], l.interface)
        IN  (l.ip_address = ip[w] /\ l.status = "OK" /\ l.interface # "N/A") =>
              IF M = {}
              THEN /\ l.neighbor_device = ""
                   /\ l.neighbor_platform = ""
                   /\ l.neighbor_interface = ""
              ELSE /\ l.neighbor_device = cdp_data[w][Last(M)].destination_host
                   /\ l.neighbor_platform = cdp_data[w][Last(M)].platform
                   /\ l.neighbor_interface = cdp_data[w][Last(M)].remote_port

\* two neighbor records for Gi1, swA then swB: the Gi1 line names swB and the
\* Gi2 line has empty neighbor fields
C15_Witness ==
  \E w \in Workers :
    /\ pc[w] = "pbar"
    /\ Len(cdp_data[w]) = 2
    /\ cdp_data[w][1].local_port = "Gi1" /\ cdp_data[w][1].destination_host = "swA"
    /\ cdp_data[w][2].local_port = "Gi1" /\ cdp_data[w][2].destination_host = "swB"
    /\ \E i, j \in DOMAIN csvfile :
         /\ csvfile[i].interface = "Gi1" /\ csvfile[i].neighbor_device = "swB"
         /\ csvfile[j].interface = "Gi2" /\ csvfile[j].neighbor_device = ""

\* C16: the header is the first line of the output, is written once, and is
\* there before any worker is started; every write happens while the sink is
\* open; the sink is closed only when every started worker has exited and
\* was joined, stays closed and unchanged from then on, and is closed once
\* every worker has been joined.
C16_SinkLifecycle ==
  /\ [](/\ sink = "unopened" =>
             csvfile = << >> /\ threads = 0 /\ \A w \in Workers : pc[w] = "unstarted"
        /\ sink # "unopened" =>
             /\ Len(csvfile) >= 1 /\ csvfile[1] = HeaderLine
             /\ \A j \in 2..Len(csvfile) : csvfile[j] # HeaderLine
        /\ \A w \in Workers : pc[w] = "writing" => sink = "open"
        /\ sink = "closed" =>
             /\ main_pc = "done" /\ joined = threads /\ threads = ExpectedWorkers
             /\ \A w \in 1..threads : pc[w] = "exit"
             /\ lock = 0)
  /\ [][/\ sink = "closed" => sink' = "closed" /\ csvfile' = csvfile
        /\ sink' # sink => \/ sink = "unopened" /\ sink' = "open"
                           \/ sink = "open" /\ sink' = "closed"
        /\ csvfile' # csvfile =>
             /\ sink' = "open"
             /\ Len(csvfile') = Len(csvfile) + 1
             /\ SubSeq(csvfile', 1, Len(csvfile)) = csvfile]_vars
  /\ (main_pc = "thread_join" /\ joined = threads) ~> (sink = "closed")

\* two workers wrote the rows of two devices and the sink is closed
C16_Witness ==
  /\ sink = "closed"
  /\ threads = 2
  /\ Len(csvfile) >= 4
  /\ \A d \in DeviceSet : hist[d].popper # 0 /\ Len(LinesOf(d)) >= 1
  /\ \E d, e \in DeviceSet : hist[d].popper # hist[e].popper

\* the interface lines of device d, in output order
InterfaceLinesOf(d) == SelectSeq(OkLinesOf(d), LAMBDA l : l.interface # "N/A")

\* C17: at every moment the interface lines written so far for a device in
\* processing are, in output order, the lines of the first records of its
\* interface_data, all of them once the device is marked done; and the output
\* only grows at its end, so the order stays as written.
C17_RowOrder ==
  /\ [](\A w \in Workers :
          pc[w] \in Processing \cup {"pbar"} =>
            LET L == InterfaceLinesOf(ip[w]) IN
            /\ Len(L) <= Len(interface_data[w])
            /\ \A i \in 1..Len(L) :
                 /\ L[i].interface = interface_data[w][i].intf
                 /\ L[i].interface_ip = interface_data[w][i].ipaddr
            /\ (pc[w] = "pbar" /\ Len(L) >= 1) => Len(L) = Len(interface_data[w]))
  /\ [][\A j \in DOMAIN csvfile : j \in DOMAIN csvfile' /\ csvfile'[j] = csvfile[j]]_vars

\* a device with two interface records is done and a line of the other
\* device lies between its two lines
C17_Witness ==
  \E w \in Workers, e \in DeviceSet :
    /\ pc[w] = "pbar"
    /\ Len(interface_data[w]) = 2
    /\ Len(InterfaceLinesOf(ip[w])) = 2
    /\ Interleaved(ip[w], e)

\* a line whose three neighbor fields are those of a neighbor record
NeighborPopulated(l) ==
  /\ l.neighbor_device \in NeighborHosts
  /\ l.neighbor_platform = "WS-C"
  /\ l.neighbor_interface = "Gi0/1"

NeighborEmpty(l) ==
  l.neighbor_device = "" /\ l.neighbor_platform = "" /\ l.neighbor_interface = ""

\* C18: in the scenario the output never holds more than the header and 3
\* rows, and once the queue join has returned it holds exactly the header
\* and 3 rows: two OK lines for 10.0.0.1, one with its neighbor fields
\* populated and one with them empty, and the one "Authentication Failed"
\* line of 10.0.0.2.
C18_Scenario ==
  /\ Len(csvfile) <= 4
  /\ main_pc \in {"thread_join", "done"} =>
       /\ Len(csvfile) = 4
       /\ csvfile[1] = HeaderLine
       /\ LET L == LinesOf(DeviceIps[1]) IN
          /\ Len(L) = 2
          /\ L[1].status = "OK" /\ L[2].status = "OK"
          /\ {L[1].interface, L[2].interface} = {IfNames[1], IfNames[2]}
          /\ \/ NeighborPopulated(L[1]) /\ NeighborEmpty(L[2])
             \/ NeighborEmpty(L[1]) /\ NeighborPopulated(L[2])
       /\ LinesOf(DeviceIps[2]) =
            <<DictWriterLine(FailureRow(DeviceIps[2], "Authentication Failed"))>>

\* the run is complete; the second worker processed 10.0.0.1 and the first
\* 10.0.0.2, whose line lies between the two lines of 10.0.0.1
C18_Witness ==
  /\ main_pc = "done"
  /\ hist[DeviceIps[1]].popper = 2 /\ hist[DeviceIps[2]].popper = 1
  /\ Interleaved(DeviceIps[1], DeviceIps[2])

\* workers that have marked their item done and not yet advanced the progress
BetweenDoneAndProgress == {w \in Workers : pc[w] = "pbar"}

\* C19 as claimed: the progress bar is advanced before the item is marked
\* done, so it has counted every item that is marked done, and shows every
\* device once the queue join has returned.
C19_ProgressBeforeDone ==
  /\ pbar >= pushed - unfinished_tasks
  /\ main_pc \in {"thread_join", "done"} => pbar = Len(devices)

\* C19 as amended: an iteration writes its rows, marks the item done and
\* then advances the progress bar; the bar trails the number of items marked
\* done by the number of workers between the two calls, also when the queue
\* join returns, and shows every device once every worker has exited.
C19_DoneBeforeProgress ==
  /\ pbar + Cardinality(BetweenDoneAndProgress) = pushed - unfinished_tasks
  /\ \A w \in Workers :
       /\ pc[w] \in Processing => hist[ip[w]].dones = 0
       /\ pc[w] \in {"task_done", "pbar"} =>
            rows[w] = << >> /\ Len(LinesOf(ip[w])) >= 1
       /\ pc[w] = "pbar" => hist[ip[w]].dones = 1
  /\ main_pc \in {"thread_join", "done"} =>
       pbar = Len(devices) - Cardinality(BetweenDoneAndProgress)
  /\ main_pc = "done" => pbar = Len(devices)

\* the queue join has returned and the progress bar still shows no device:
\* both workers are between task_done and update
C19_Witness ==
  /\ main_pc = "thread_join"
  /\ unfinished_tasks = 0
  /\ Len(devices) = 2
  /\ pbar = 0

\* the devices worker w has popped and not yet marked done
Held(w) == {d \in DeviceSet : hist[d].popper = w /\ hist[d].pops > hist[d].dones}

\* the devices whose session worker w opened and has not closed
OpenBy(w) == {d \in DeviceSet : hist[d].opener = w /\ hist[d].opens > hist[d].closes}

OpenSessions == {d \in DeviceSet : hist[d].opens > hist[d].closes}

\* C20: a worker holds at most one popped and not yet done device, the one
\* in its local ip, and at most one open session, the one to that device; at
\* most min(NUM_THREADS, len(devices)) sessions are open at once, and a
\* device never has two open sessions.
C20_PoolBound ==
  /\ \A w \in Workers :
       /\ Cardinality(Held(w)) <= 1
       /\ Held(w) = (IF pc[w] \in Processing THEN {ip[w]} ELSE {})
       /\ Cardinality(OpenBy(w)) <= 1
       /\ OpenBy(w) = (IF session[w] = "open" THEN {ip[w]} ELSE {})
       /\ OpenBy(w) \subseteq Held(w)
  /\ Cardinality(OpenSessions) <= ExpectedWorkers
  /\ Cardinality({w \in Workers : session[w] = "open"}) = Cardinality(OpenSessions)
  /\ \A d \in DeviceSet : hist[d].opens - hist[d].closes <= 1

\* both workers have a session open at once
C20_Witness ==
  /\ ExpectedWorkers = 2
  /\ \A w \in Workers : session[w] = "open" /\ Held(w) = {ip[w]}
  /\ Cardinality(OpenSessions) = 2

====
